---- MODULE Spec2Model ----
(***************************************************************************)
(* Breed resolution of policy_MCP (src/main.py): the lazily loaded         *)
(* process-wide breed table, the exact / partial / fuzzy matcher           *)
(* search_breeds and the cardinality decision of resolve_breed_code.       *)
(*                                                                         *)
(* Strings are TLA+ strings in the state; the operators below take them    *)
(* apart into sequences of one-character strings to compute what Python's  *)
(* str methods and rapidfuzz compute.                                      *)
(***************************************************************************)
EXTENDS Integers, Sequences, FiniteSets, TLC

(***************************************************************************)
(* Python str operations                                                   *)
(***************************************************************************)

\* The characters of a string, as a sequence of one-character strings.
Chars(s) == [i \in 1..Len(s) |-> SubSeq(s, i, i)]

UpperCase == Chars("ABCDEFGHIJKLMNOPQRSTUVWXYZ")
LowerCase == Chars("abcdefghijklmnopqrstuvwxyz")

\* Code-point order of the characters the model uses (ASCII order).
Ascii == Chars(" '-0123456789ABCDEFGHIJKLMNOPQRSTUVWXYZ_abcdefghijklmnopqrstuvwxyz~")

Ord(c) == CHOOSE i \in 1..Len(Ascii) : Ascii[i] = c

IsSpace(c) == c = " "

LowerChar(c) ==
    IF \E i \in 1..Len(UpperCase) : UpperCase[i] = c
    THEN LowerCase[CHOOSE i \in 1..Len(UpperCase) : UpperCase[i] = c]
    ELSE c

UpperChar(c) ==
    IF \E i \in 1..Len(LowerCase) : LowerCase[i] = c
    THEN UpperCase[CHOOSE i \in 1..Len(LowerCase) : LowerCase[i] = c]
    ELSE c

\* str.lower()
Lower(cs) == [i \in 1..Len(cs) |-> LowerChar(cs[i])]

\* str.capitalize(): first character upper-cased, the rest lower-cased.
Capitalize(cs) ==
    [i \in 1..Len(cs) |-> IF i = 1 THEN UpperChar(cs[i]) ELSE LowerChar(cs[i])]

RECURSIVE LStrip(_)
LStrip(cs) ==
    IF cs # <<>> /\ IsSpace(Head(cs)) THEN LStrip(Tail(cs)) ELSE cs

RECURSIVE RStrip(_)
RStrip(cs) ==
    IF cs # <<>> /\ IsSpace(cs[Len(cs)])
    THEN RStrip(SubSeq(cs, 1, Len(cs) - 1))
    ELSE cs

\* str.strip()
Strip(cs) == RStrip(LStrip(cs))

\* str.startswith(prefix)
StartsWith(cs, prefix) ==
    /\ Len(prefix) <= Len(cs)
    /\ SubSeq(cs, 1, Len(prefix)) = prefix

\* sub in cs (substring test; the empty string is in every string)
Contains(sub, cs) ==
    \E i \in 1..(Len(cs) - Len(sub) + 1) : SubSeq(cs, i, i + Len(sub) - 1) = sub

\* str.split(): the maximal runs of non-whitespace characters, in order.
RECURSIVE SplitFrom(_, _, _)
SplitFrom(cs, word, acc) ==
    IF cs = <<>>
    THEN IF word = <<>> THEN acc ELSE Append(acc, word)
    ELSE IF IsSpace(Head(cs))
         THEN SplitFrom(Tail(cs), <<>>, IF word = <<>> THEN acc ELSE Append(acc, word))
         ELSE SplitFrom(Tail(cs), Append(word, Head(cs)), acc)

Split(cs) == SplitFrom(cs, <<>>, <<>>)

\* a < b for Python strings: lexicographic by code point.
RECURSIVE StrLess(_, _)
StrLess(a, b) ==
    IF b = <<>> THEN FALSE
    ELSE IF a = <<>> THEN TRUE
    ELSE IF Head(a) = Head(b) THEN StrLess(Tail(a), Tail(b))
    ELSE Ord(Head(a)) < Ord(Head(b))

\* sorted(words): insertion sort, stable.
RECURSIVE InsertWord(_, _)
InsertWord(w, sorted) ==
    IF sorted = <<>> THEN <<w>>
    ELSE IF StrLess(w, Head(sorted)) THEN <<w>> \o sorted
    ELSE <<Head(sorted)>> \o InsertWord(w, Tail(sorted))

RECURSIVE SortWords(_)
SortWords(words) ==
    IF words = <<>> THEN <<>>
    ELSE InsertWord(words[Len(words)], SortWords(SubSeq(words, 1, Len(words) - 1)))

\* " ".join(words)
RECURSIVE Join(_)
Join(words) ==
    IF words = <<>> THEN <<>>
    ELSE IF Len(words) = 1 THEN words[1]
    ELSE words[1] \o <<" ">> \o Join(Tail(words))

(***************************************************************************)
(* rapidfuzz: fuzz.token_sort_ratio and process.extract                    *)
(***************************************************************************)

Max(a, b) == IF a >= b THEN a ELSE b

\* One row of the longest-common-subsequence table: row[j + 1] is the LCS
\* length of the prefix of a ending at character c and the first j of b.
RECURSIVE LcsRow(_, _, _, _)
LcsRow(prev, c, b, row) ==
    LET j == Len(row)
    IN  IF j > Len(b) THEN row
        ELSE LcsRow(prev, c, b,
                    Append(row, IF c = b[j] THEN prev[j] + 1
                                ELSE Max(prev[j + 1], row[j])))

RECURSIVE LcsRows(_, _, _)
LcsRows(a, b, prev) ==
    IF a = <<>> THEN prev[Len(b) + 1]
    ELSE LcsRows(Tail(a), b, LcsRow(prev, Head(a), b, <<0>>))

Lcs(a, b) == LcsRows(a, b, [j \in 1..(Len(b) + 1) |-> 0])

\* fuzz.ratio: the normalized Indel similarity times 100, which is
\* 100 * 2 * LCS / (len1 + len2), kept as the fraction num / den.  Two
\* empty strings score 100.
ratio(a, b) ==
    IF Len(a) + Len(b) = 0
    THEN [num |-> 100, den |-> 1]
    ELSE [num |-> 200 * Lcs(a, b), den |-> Len(a) + Len(b)]

\* fuzz.token_sort_ratio(s1, s2) with no processor (the default of
\* process.extract since rapidfuzz 3): the ratio of the two strings after
\* their words are sorted and joined with one space.  Case is kept.
token_sort_ratio(s1, s2) ==
    ratio(Join(SortWords(Split(Chars(s1)))), Join(SortWords(Split(Chars(s2)))))

ScoreGreater(x, y) == x.num * y.den > y.num * x.den

\* The cutoff as `score >= n`: the off-by-one that C8's boundary excludes.
ScoreAtLeast(x, n) == x.num >= n * x.den

ScoreAbove(x, n) == x.num > n * x.den

(***************************************************************************)
(* process.extract(query, choices, scorer=fuzz.token_sort_ratio, limit)    *)
(***************************************************************************)

\* The position in `scored` of the best remaining entry: the highest score,
\* and among equal scores the one met first in the choices.
BestIndex(scored) ==
    CHOOSE i \in 1..Len(scored) :
        /\ \A j \in 1..Len(scored) : ~ScoreGreater(scored[j].score, scored[i].score)
        /\ \A j \in 1..(i - 1) : ScoreGreater(scored[i].score, scored[j].score)

RemoveAt(seq, i) == SubSeq(seq, 1, i - 1) \o SubSeq(seq, i + 1, Len(seq))

RECURSIVE TopScored(_, _)
TopScored(scored, limit) ==
    IF limit = 0 \/ scored = <<>> THEN <<>>
    ELSE LET i == BestIndex(scored)
         IN  <<scored[i]>> \o TopScored(RemoveAt(scored, i), limit - 1)

\* The (choice, score) pairs of the `limit` best choices, best first.
extract(query, choices, limit) ==
    TopScored([i \in 1..Len(choices) |->
                  [label |-> choices[i], score |-> token_sort_ratio(query, choices[i])]],
              limit)

(***************************************************************************)
(* search_breeds                                                           *)
(***************************************************************************)

\* limit=5 of the process.extract call
FuzzyLimit == 5

\* the literal of `if score > 70`
FuzzyCutoff == 70

\* f"{species_type.capitalize()}~"
SpeciesPrefix(species_type) == Capitalize(Chars(species_type)) \o <<"~">>

\* Eligibility without the species test: what C9 excludes.
EligibleAnySpecies(breed_data, species_type) == breed_data.HealthyPaws # ""

\* The two `continue` tests of the first loop, which are the condition of
\* the second loop: a truthy HealthyPaws value and a PrudentPet value that
\* starts with the species prefix.  A provider missing from the record is
\* the empty string here (providers.get gives None or "", both falsy).
Eligible(breed_data, species_type) ==
    /\ breed_data.HealthyPaws # ""
    /\ StartsWith(Chars(breed_data.PrudentPet), SpeciesPrefix(species_type))

\* The if / elif of the first loop, for one record that passed both tests.
MatchType(breed_data, breed_name_lower) ==
    LET label_lower == Lower(Chars(breed_data.label))
        breed_key   == Chars(breed_data.key)
    IN  IF label_lower = breed_name_lower \/ breed_key = breed_name_lower
        THEN "exact"
        ELSE IF Contains(breed_name_lower, label_lower)
                \/ Contains(breed_name_lower, breed_key)
             THEN "partial"
             ELSE "none"

\* The first loop over breeds.items(): exact and partial matches, in table
\* order.
RECURSIVE DirectMatches(_, _, _)
DirectMatches(breeds, breed_name_lower, species_type) ==
    IF breeds = <<>> THEN <<>>
    ELSE LET breed_data == Head(breeds)
             rest == DirectMatches(Tail(breeds), breed_name_lower, species_type)
             kind == MatchType(breed_data, breed_name_lower)
         IN  IF Eligible(breed_data, species_type) /\ kind # "none"
             THEN <<[key        |-> breed_data.key,
                     label      |-> breed_data.label,
                     breed_id   |-> breed_data.HealthyPaws,
                     match_type |-> kind]>> \o rest
             ELSE rest

\* A dict fill that keeps the first value of a label (setdefault): the
\* first-wins policy that C6 as claimed describes.
DictStoreKeepFirst(entries, label, info) ==
    IF \E i \in 1..Len(entries) : entries[i].label = label
    THEN entries
    ELSE Append(entries, info)

\* breed_labels[label] = info on a dict kept as a sequence of entries in
\* insertion order: an existing label keeps its place and takes the new
\* value, a new label goes to the end.
DictStore(entries, label, info) ==
    IF \E i \in 1..Len(entries) : entries[i].label = label
    THEN [i \in 1..Len(entries) |->
             IF entries[i].label = label THEN info ELSE entries[i]]
    ELSE Append(entries, info)

\* The second loop: the breed_labels dict of the eligible records.
RECURSIVE BreedLabels(_, _, _)
BreedLabels(breeds, species_type, entries) ==
    IF breeds = <<>> THEN entries
    ELSE LET breed_data == Head(breeds)
         IN  BreedLabels(Tail(breeds), species_type,
                 IF Eligible(breed_data, species_type)
                 THEN DictStore(entries, breed_data.label,
                                [key      |-> breed_data.key,
                                 breed_id |-> breed_data.HealthyPaws,
                                 label    |-> breed_data.label])
                 ELSE entries)

DictGet(entries, label) ==
    entries[CHOOSE i \in 1..Len(entries) : entries[i].label = label]

\* The loop over fuzzy_results: one fuzzy candidate per result that scores
\* above the cutoff.
RECURSIVE FuzzyCandidates(_, _)
FuzzyCandidates(fuzzy_results, breed_labels) ==
    IF fuzzy_results = <<>> THEN <<>>
    ELSE LET r == Head(fuzzy_results)
             breed_info == DictGet(breed_labels, r.label)
             rest == FuzzyCandidates(Tail(fuzzy_results), breed_labels)
         IN  IF ScoreAbove(r.score, FuzzyCutoff)
             THEN <<[key        |-> breed_info.key,
                     label      |-> breed_info.label,
                     breed_id   |-> breed_info.breed_id,
                     match_type |-> "fuzzy",
                     score      |-> r.score]>> \o rest
             ELSE rest

\* The `if not matches:` block.  The scorer gets the raw breed_name.
FuzzyMatches(breeds, breed_name, species_type) ==
    LET breed_labels == BreedLabels(breeds, species_type, <<>>)
        choices == [i \in 1..Len(breed_labels) |-> breed_labels[i].label]
    IN  IF breed_labels = <<>> THEN <<>>
        ELSE FuzzyCandidates(extract(breed_name, choices, FuzzyLimit), breed_labels)

\* breed_name.lower().strip()
BreedNameLower(breed_name) == Strip(Lower(Chars(breed_name)))

search_breeds(breeds, breed_name, species_type) ==
    LET direct == DirectMatches(breeds, BreedNameLower(breed_name), species_type)
        matches == IF direct = <<>>
                   THEN FuzzyMatches(breeds, breed_name, species_type)
                   ELSE direct
    IN  [matches |-> matches, count |-> Len(matches)]

(***************************************************************************)
(* resolve_breed_code                                                      *)
(***************************************************************************)

HTTPException(status_code, detail) ==
    [kind |-> "HTTPException", status_code |-> status_code, detail |-> detail]

NoOutcome == [kind |-> "none"]

\* species_type.lower()
SpeciesLower(species_type) ==
    LET cs == Lower(Chars(species_type))
    IN  IF cs = Chars("dog") THEN "dog"
        ELSE IF cs = Chars("cat") THEN "cat"
        ELSE "other"

\* The three checks made before the search; NoOutcome when all pass.
Validate(species_type, breed_name) ==
    IF species_type = ""
    THEN HTTPException(400, "Species type is required")
    ELSE IF SpeciesLower(species_type) \notin {"dog", "cat"}
    THEN HTTPException(404, "Species must be 'dog' or 'cat'")
    ELSE IF breed_name = ""
    THEN HTTPException(400, "Breed name is required")
    ELSE NoOutcome

\* A decision that resolves to the first candidate whenever there is one:
\* the silent guess that C3 excludes.
DecideFirst(search_result) ==
    IF search_result.count = 0
    THEN HTTPException(404, "No breeds found")
    ELSE [kind     |-> "Resolved",
          breed_id |-> search_result.matches[1].breed_id,
          label    |-> search_result.matches[1].label,
          key      |-> search_result.matches[1].key]

\* The branch on search_result["count"].
Decide(search_result) ==
    IF search_result.count = 0
    THEN HTTPException(404, "No breeds found")
    ELSE IF search_result.count = 1
    THEN LET match == search_result.matches[1]
         IN  [kind     |-> "Resolved",
              breed_id |-> match.breed_id,
              label    |-> match.label,
              key      |-> match.key]
    ELSE [kind    |-> "Ambiguous",
          count   |-> search_result.count,
          options |-> [i \in 1..Len(search_result.matches) |->
                          [label      |-> search_result.matches[i].label,
                           key        |-> search_result.matches[i].key,
                           match_type |-> search_result.matches[i].match_type]]]

\* The outcome kinds by the spec's names.
IsInvalidSpecies(o) ==
    o.kind = "HTTPException"
    /\ o.detail \in {"Species type is required", "Species must be 'dog' or 'cat'"}

IsInvalidQuery(o) == o.kind = "HTTPException" /\ o.detail = "Breed name is required"

IsNotFound(o) == o.kind = "HTTPException" /\ o.detail = "No breeds found"

(***************************************************************************)
(* The breed dataset (breed-mappings-generated.json) and the callers       *)
(***************************************************************************)

Breed(key, label, healthy_paws, prudent_pet) ==
    [key |-> key, label |-> label,
     HealthyPaws |-> healthy_paws, PrudentPet |-> prudent_pet]

\* Dog and cat records with one label, a record without a HealthyPaws id,
\* and a label that contains another.
Poodles ==
    << Breed("poodle",     "Poodle",     "101", "Dog~Poodle"),
       Breed("toy_poodle", "Toy Poodle", "102", "Dog~Toy Poodle"),
       Breed("poodle_cat", "Poodle",     "201", "Cat~Poodle"),
       Breed("persian",    "Persian",    "202", "Cat~Persian"),
       Breed("poodle_mix", "Poodle Mix", "",    "Dog~Poodle Mix") >>

\* Two dog records that share a label.
Pugs ==
    << Breed("pug",   "Pug",   "11", "Dog~Pug"),
       Breed("pug_2", "Pug",   "12", "Dog~Pug 2"),
       Breed("boxer", "Boxer", "13", "Dog~Boxer") >>

\* Seven labels close to "Spaniell": six score above 70, one exactly 70.
Spaniels ==
    << Breed("king_spaniel", "King Spaniel", "31", "Dog~King Spaniel"),
       Breed("toy_spaniel",  "Toy Spaniel",  "32", "Dog~Toy Spaniel"),
       Breed("spaniel",      "Spaniel",      "33", "Dog~Spaniel"),
       Breed("spaniel_mix",  "Spaniel Mix",  "34", "Dog~Spaniel Mix"),
       Breed("spaniol",      "Spaniol",      "35", "Dog~Spaniol"),
       Breed("sea_spaniel",  "Sea Spaniel",  "36", "Dog~Sea Spaniel"),
       Breed("spanel",       "Spanel",       "37", "Dog~Spanel") >>

\* An empty mapping: a readable file with no breed in it.
NoBreeds == << >>

Datasets == {Poodles, Pugs, Spaniels, NoBreeds}

SpeciesInputs == {"dog", "DOG", "Cat", "bird", ""}

Queries ==
    {"", " ", "Poodle", "poodle ", "TOY POODLE", "oodle", "toy", "toy_poodle",
     "Persian", "Pug", "Pugg", "spaniel", "Spaniell", "King Spaniell",
     "King KSpaniel", "Zzz"}

\* What the callers of the concurrent specification send.
SharedDatasets == {Pugs}
SharedSpecies == {"dog"}
SharedQueries == {"", "Pug", "Pugg"}

\* Number of concurrent callers (worker threads of the hosting service).
NCallers == 2

Callers == 1..NCallers

NoOption == [label |-> "", key |-> "", match_type |-> "none"]

NoCall == [species_type |-> "", breed_name |-> "", outcome |-> NoOutcome]

VARIABLES
    dataset,       \* the content of the file at BREEDS_PATH
    BREEDS_CACHE,  \* the global: is_none, or the table in `items`
    pc,            \* where each caller is in resolve_breed_code
    species_type,  \* the arguments of each caller's current call
    breed_name,
    parsed,        \* the table json.load has built so far, per caller
    breeds,        \* what load_breeds_cache returned, per caller
    search_result, \* what search_breeds returned, per caller
    outcome,       \* the outcome of each caller's last finished call
    chosen,        \* the option a caller resubmitted the label of
    file_reads,    \* how many times the file was opened and parsed
    cache_writes,  \* how many times BREEDS_CACHE was assigned
    memo           \* one finished call, remembered for comparison

vars == <<dataset, BREEDS_CACHE, pc, species_type, breed_name, parsed, breeds,
          search_result, outcome, chosen, file_reads, cache_writes, memo>>

NoResult == [matches |-> <<>>, count |-> 0]

None == [is_none |-> TRUE, items |-> <<>>]

Loaded(table) == [is_none |-> FALSE, items |-> table]

InitWith(tables) ==
    /\ dataset \in tables
    /\ BREEDS_CACHE = None
    /\ pc = [t \in Callers |-> "idle"]
    /\ species_type = [t \in Callers |-> ""]
    /\ breed_name = [t \in Callers |-> ""]
    /\ parsed = [t \in Callers |-> <<>>]
    /\ breeds = [t \in Callers |-> <<>>]
    /\ search_result = [t \in Callers |-> NoResult]
    /\ outcome = [t \in Callers |-> NoOutcome]
    /\ chosen = [t \in Callers |-> NoOption]
    /\ file_reads = 0
    /\ cache_writes = 0
    /\ memo = NoCall

Init == InitWith(SharedDatasets)

SeqInit == InitWith(Datasets)

\* A call finishes with outcome `out`; the observer may remember it.
Finish(t, s, q, out, remember) ==
    /\ pc' = [pc EXCEPT ![t] = "done"]
    /\ outcome' = [outcome EXCEPT ![t] = out]
    /\ \E r \in remember :
          memo' = IF r /\ memo = NoCall
                  THEN [species_type |-> s, breed_name |-> q, outcome |-> out]
                  ELSE memo

\* resolve_breed_code(s, q) is entered: the three argument checks, then on
\* to search_breeds.
Enter(t, s, q, option, remember) ==
    /\ species_type' = [species_type EXCEPT ![t] = s]
    /\ breed_name' = [breed_name EXCEPT ![t] = q]
    /\ chosen' = [chosen EXCEPT ![t] = option]
    /\ breeds' = [breeds EXCEPT ![t] = <<>>]
    /\ search_result' = [search_result EXCEPT ![t] = NoResult]
    /\ IF Validate(s, q) # NoOutcome
       THEN Finish(t, s, q, Validate(s, q), remember)
       ELSE /\ pc' = [pc EXCEPT ![t] = "load"]
            /\ outcome' = [outcome EXCEPT ![t] = NoOutcome]
            /\ memo' = memo
    /\ UNCHANGED <<dataset, BREEDS_CACHE, parsed, file_reads, cache_writes>>

\* A caller invokes resolve_breed_code with a species and a query.
Call(t, species, queries, remember) ==
    /\ pc[t] \in {"idle", "done"}
    /\ \E s \in species, q \in queries : Enter(t, s, q, NoOption, remember)

\* After an Ambiguous outcome the caller re-runs the query with the exact
\* label of one of the options (the instruction get_policy returns).
Resubmit(t, remember) ==
    /\ pc[t] = "done"
    /\ outcome[t].kind = "Ambiguous"
    /\ \E i \in 1..Len(outcome[t].options) :
          Enter(t, species_type[t], outcome[t].options[i].label,
                outcome[t].options[i], remember)

\* load_breeds_cache: `if BREEDS_CACHE is None`, and on a cold cache the
\* open() of the file.
LoadCheck(t) ==
    /\ pc[t] = "load"
    /\ IF BREEDS_CACHE.is_none
       THEN /\ pc' = [pc EXCEPT ![t] = "parse"]
            /\ parsed' = [parsed EXCEPT ![t] = <<>>]
            /\ file_reads' = file_reads + 1
       ELSE /\ pc' = [pc EXCEPT ![t] = "return"]
            /\ UNCHANGED <<parsed, file_reads>>
    /\ UNCHANGED <<dataset, BREEDS_CACHE, species_type, breed_name, breeds,
                   search_result, outcome, chosen, cache_writes, memo>>

\* A load that fills the global itself, record by record: the partially
\* loaded cache that C4 excludes.
ParseEager(t) ==
    /\ pc[t] = "parse"
    /\ Len(parsed[t]) < Len(dataset)
    /\ parsed' = [parsed EXCEPT ![t] = Append(@, dataset[Len(@) + 1])]
    /\ BREEDS_CACHE' = Loaded(parsed'[t])
    /\ UNCHANGED <<dataset, pc, species_type, breed_name, breeds,
                   search_result, outcome, chosen, file_reads, cache_writes, memo>>

\* json.load(f) builds the table one record at a time, in a local object.
Parse(t) ==
    /\ pc[t] = "parse"
    /\ Len(parsed[t]) < Len(dataset)
    /\ parsed' = [parsed EXCEPT ![t] = Append(@, dataset[Len(@) + 1])]
    /\ UNCHANGED <<dataset, BREEDS_CACHE, pc, species_type, breed_name, breeds,
                   search_result, outcome, chosen, file_reads, cache_writes, memo>>

\* BREEDS_CACHE = <the table json.load returned>
Assign(t) ==
    /\ pc[t] = "parse"
    /\ Len(parsed[t]) = Len(dataset)
    /\ BREEDS_CACHE' = Loaded(parsed[t])
    /\ cache_writes' = cache_writes + 1
    /\ parsed' = [parsed EXCEPT ![t] = <<>>]
    /\ pc' = [pc EXCEPT ![t] = "return"]
    /\ UNCHANGED <<dataset, species_type, breed_name, breeds, search_result,
                   outcome, chosen, file_reads, memo>>

\* return BREEDS_CACHE, received by search_breeds as `breeds`
Return(t) ==
    /\ pc[t] = "return"
    /\ breeds' = [breeds EXCEPT ![t] = BREEDS_CACHE.items]
    /\ pc' = [pc EXCEPT ![t] = "search"]
    /\ UNCHANGED <<dataset, BREEDS_CACHE, species_type, breed_name, parsed,
                   search_result, outcome, chosen, file_reads, cache_writes, memo>>

\* A search that deletes what it matched from the table it was handed,
\* which is the cached object itself: the state drift that C10 excludes.
SearchConsuming(t, remember) ==
    /\ pc[t] = "search"
    /\ LET result == search_breeds(breeds[t], breed_name[t],
                                   SpeciesLower(species_type[t]))
           matched == {result.matches[i].key : i \in 1..Len(result.matches)}
       IN  /\ search_result' = [search_result EXCEPT ![t] = result]
           /\ Finish(t, species_type[t], breed_name[t], Decide(result), remember)
           /\ BREEDS_CACHE' =
                  Loaded(SelectSeq(BREEDS_CACHE.items, LAMBDA b : b.key \notin matched))
    /\ UNCHANGED <<dataset, species_type, breed_name, parsed,
                   breeds, chosen, file_reads, cache_writes>>

\* The rest of search_breeds and the decision of resolve_breed_code.
Search(t, remember) ==
    /\ pc[t] = "search"
    /\ LET result == search_breeds(breeds[t], breed_name[t],
                                   SpeciesLower(species_type[t]))
       IN  /\ search_result' = [search_result EXCEPT ![t] = result]
           /\ Finish(t, species_type[t], breed_name[t], Decide(result), remember)
    /\ UNCHANGED <<dataset, BREEDS_CACHE, species_type, breed_name, parsed,
                   breeds, chosen, file_reads, cache_writes>>

\* Concurrent callers; an observer remembers one finished call.
Next ==
    \E t \in Callers :
        \/ Call(t, SharedSpecies, SharedQueries, BOOLEAN)
        \/ Resubmit(t, BOOLEAN)
        \/ LoadCheck(t)
        \/ Parse(t)
        \/ Assign(t)
        \/ Return(t)
        \/ Search(t, BOOLEAN)

Spec == Init /\ [][Next]_vars

\* One caller, one call after the other, over every dataset and input.
SeqNext ==
    \/ Call(1, SpeciesInputs, Queries, {FALSE})
    \/ Resubmit(1, {FALSE})
    \/ LoadCheck(1)
    \/ Parse(1)
    \/ Assign(1)
    \/ Return(1)
    \/ Search(1, {FALSE})

SeqSpec == SeqInit /\ [][SeqNext]_vars

(***************************************************************************)
(* The vocabulary of the properties, written from the specification's      *)
(* words and not from the matcher's operators                              *)
(***************************************************************************)

Records == {dataset[i] : i \in 1..Len(dataset)}

\* Caller t's last call has finished and its species was dog or cat.
Resolving(t) ==
    /\ pc[t] = "done"
    /\ SpeciesLower(species_type[t]) \in {"dog", "cat"}

\* The call got as far as the matcher.
Searched(t) == Resolving(t) /\ breed_name[t] # ""

Matches(t) == search_result[t].matches

SpeciesTag(t) ==
    IF SpeciesLower(species_type[t]) = "dog" THEN Chars("Dog~") ELSE Chars("Cat~")

\* A non-empty downstream-provider id and the species tag of the call.
EligibleFor(rec, t) ==
    /\ rec.HealthyPaws # ""
    /\ StartsWith(Chars(rec.PrudentPet), SpeciesTag(t))

\* The trimmed, lower-cased query of the call.
Trimmed(t) == Lower(Strip(Chars(breed_name[t])))

ExactHit(rec, t) ==
    \/ Lower(Chars(rec.label)) = Trimmed(t)
    \/ Chars(rec.key) = Trimmed(t)

PartialHit(rec, t) ==
    \/ Contains(Trimmed(t), Lower(Chars(rec.label)))
    \/ Contains(Trimmed(t), Chars(rec.key))

\* No eligible record matches exactly or partially: the fuzzy phase runs.
NoDirectHit(t) ==
    \A rec \in Records : EligibleFor(rec, t) => ~ExactHit(rec, t) /\ ~PartialHit(rec, t)

\* The table positions of the eligible records that carry `label`.
Carriers(label, t) ==
    {i \in 1..Len(dataset) : EligibleFor(dataset[i], t) /\ dataset[i].label = label}

FirstCarrier(label, t) ==
    dataset[CHOOSE i \in Carriers(label, t) : \A j \in Carriers(label, t) : i <= j]

LastCarrier(label, t) ==
    dataset[CHOOSE i \in Carriers(label, t) : \A j \in Carriers(label, t) : i >= j]

EligibleLabels(t) == {rec.label : rec \in {r \in Records : EligibleFor(r, t)}}

FirstPosition(label, t) ==
    CHOOSE i \in Carriers(label, t) : \A j \in Carriers(label, t) : i <= j

LabelScore(label, t) == token_sort_ratio(breed_name[t], label)

\* Label a is ahead of label b: a higher score, or the same score and met
\* earlier in the table.
Ahead(a, b, t) ==
    \/ ScoreGreater(LabelScore(a, t), LabelScore(b, t))
    \/ /\ ~ScoreGreater(LabelScore(b, t), LabelScore(a, t))
       /\ FirstPosition(a, t) < FirstPosition(b, t)

Rank(label, t) == 1 + Cardinality({a \in EligibleLabels(t) : Ahead(a, label, t)})

Over70(label, t) == LabelScore(label, t).num > 70 * LabelScore(label, t).den

Exactly70(label, t) == LabelScore(label, t).num = 70 * LabelScore(label, t).den

\* Among the five highest-scoring labels, and scoring above 70.
Survivors(t) == {l \in EligibleLabels(t) : Rank(l, t) <= 5 /\ Over70(l, t)}

(***************************************************************************)
(* Properties                                                              *)
(***************************************************************************)

\* C1: when an eligible record matches the query exactly, every candidate
\* of the match list has match type exact.
C1_PhaseShortCircuit ==
    \A t \in Callers :
        (Searched(t) /\ \E rec \in Records : EligibleFor(rec, t) /\ ExactHit(rec, t))
        => \A i \in 1..Len(Matches(t)) : Matches(t)[i].match_type = "exact"

\* C2: a call with a valid species and a query that is empty after
\* trimming fails with InvalidQuery.
C2_BlankQueryInvalid ==
    \A t \in Callers :
        (Resolving(t) /\ Strip(Chars(breed_name[t])) = <<>>)
        => IsInvalidQuery(outcome[t])

\* C3: the outcome of a call that reached the matcher is decided by the
\* length n of the match list: NotFound for 0, Resolved with the sole
\* candidate for 1, Ambiguous with count n and the candidates in order as
\* options for 2 or more; and no other outcome.
C3_CardinalityRouting ==
    \A t \in Callers :
        Searched(t) =>
            LET n == Len(Matches(t))
                o == outcome[t]
            IN  /\ n = 0 => IsNotFound(o)
                /\ n = 1 => /\ o.kind = "Resolved"
                            /\ o.breed_id = Matches(t)[1].breed_id
                            /\ o.label = Matches(t)[1].label
                            /\ o.key = Matches(t)[1].key
                /\ n >= 2 => /\ o.kind = "Ambiguous"
                             /\ o.count = n
                             /\ Len(o.options) = n
                             /\ \A i \in 1..n :
                                   /\ o.options[i].label = Matches(t)[i].label
                                   /\ o.options[i].key = Matches(t)[i].key
                                   /\ o.options[i].match_type = Matches(t)[i].match_type
                /\ o.kind = "Ambiguous" => n >= 2
                /\ IsNotFound(o) => n = 0
                /\ o.kind \in {"Resolved", "Ambiguous"} \/ IsNotFound(o)

C3_Witness ==
    \E t \in Callers :
        /\ Searched(t)
        /\ outcome[t].kind = "Ambiguous"
        /\ outcome[t].count = 3

\* C4: the cache is None or the complete table, and every table that
\* load_breeds_cache returned is the complete table.
C4_CacheNeverPartial ==
    /\ BREEDS_CACHE.is_none \/ BREEDS_CACHE.items = dataset
    /\ BREEDS_CACHE.is_none => BREEDS_CACHE.items = <<>>
    /\ \A t \in Callers : pc[t] = "search" => breeds[t] = dataset

\* Two callers that both found the cache cold and both parsed the file hold
\* their returned tables at the same time.
C4_Witness ==
    \E t1, t2 \in Callers :
        /\ t1 # t2
        /\ pc[t1] = "search"
        /\ pc[t2] = "search"
        /\ file_reads >= 2

\* C5: the file is read and parsed at most once and the cache assigned at
\* most once.
C5_SingleInitialization == file_reads <= 1 /\ cache_writes <= 1

\* C6 as amended: a fuzzy candidate carries the key and breed id of the
\* last eligible record, in table order, that has its label.
C6_FuzzyLastWins ==
    \A t \in Callers :
        Searched(t) =>
            \A i \in 1..Len(Matches(t)) :
                Matches(t)[i].match_type = "fuzzy" =>
                    /\ Matches(t)[i].key = LastCarrier(Matches(t)[i].label, t).key
                    /\ Matches(t)[i].breed_id
                           = LastCarrier(Matches(t)[i].label, t).HealthyPaws

\* C6 as claimed: a fuzzy candidate carries the key and breed id of the
\* first eligible record, in table order, that has its label.
C6_FuzzyFirstWins ==
    \A t \in Callers :
        Searched(t) =>
            \A i \in 1..Len(Matches(t)) :
                Matches(t)[i].match_type = "fuzzy" =>
                    /\ Matches(t)[i].key = FirstCarrier(Matches(t)[i].label, t).key
                    /\ Matches(t)[i].breed_id
                           = FirstCarrier(Matches(t)[i].label, t).HealthyPaws

\* A fuzzy candidate whose label two eligible records share.
C6_Witness ==
    \E t \in Callers :
        /\ Searched(t)
        /\ \E i \in 1..Len(Matches(t)) :
              /\ Matches(t)[i].match_type = "fuzzy"
              /\ Cardinality(Carriers(Matches(t)[i].label, t)) >= 2

\* C7: a call resubmitted with the label of an Ambiguous option that
\* exactly one eligible record carries returns Resolved with that record.
C7_DisambiguationConverges ==
    \A t \in Callers :
        (/\ Resolving(t)
         /\ chosen[t] # NoOption
         /\ Cardinality(Carriers(chosen[t].label, t)) = 1)
        => /\ outcome[t].kind = "Resolved"
           /\ outcome[t].key = FirstCarrier(chosen[t].label, t).key
           /\ outcome[t].breed_id = FirstCarrier(chosen[t].label, t).HealthyPaws

\* C8: fuzzy candidates appear only when no eligible record matches exactly
\* or partially; then the match list is exactly the labels among the five
\* highest-scoring eligible labels that score above 70, each once, as fuzzy
\* candidates with their score, in descending score order; so no label above
\* 70 gives NotFound and exactly one label above 70 gives Resolved.
C8_FuzzyThreshold ==
    \A t \in Callers :
        Searched(t) =>
            /\ (\E i \in 1..Len(Matches(t)) : Matches(t)[i].match_type = "fuzzy")
               => NoDirectHit(t)
            /\ NoDirectHit(t) =>
                  /\ Len(Matches(t)) = Cardinality(Survivors(t))
                  /\ Len(Matches(t)) <= 5
                  /\ \A i \in 1..Len(Matches(t)) :
                        /\ Matches(t)[i].label \in Survivors(t)
                        /\ Matches(t)[i].match_type = "fuzzy"
                        /\ Matches(t)[i].score = LabelScore(Matches(t)[i].label, t)
                  /\ \A i, j \in 1..Len(Matches(t)) :
                        i < j => /\ Matches(t)[i].label # Matches(t)[j].label
                                 /\ ~ScoreGreater(Matches(t)[j].score, Matches(t)[i].score)
                  /\ (\A l \in EligibleLabels(t) : ~Over70(l, t))
                     => IsNotFound(outcome[t])
                  /\ Cardinality({l \in EligibleLabels(t) : Over70(l, t)}) = 1
                     => outcome[t].kind = "Resolved"

\* The fuzzy phase ran, kept candidates, and dropped a label among the five
\* best that scores exactly 70.
C8_Witness ==
    \E t \in Callers :
        /\ Searched(t)
        /\ NoDirectHit(t)
        /\ Matches(t) # <<>>
        /\ \E l \in EligibleLabels(t) : Rank(l, t) <= 5 /\ Exactly70(l, t)

\* C9: every candidate, in the match list and in the Resolved or Ambiguous
\* outcome, is a record of the table with a non-empty HealthyPaws id and a
\* PrudentPet id that starts with the tag of the call's species.
C9_SpeciesIsolation ==
    \A t \in Callers :
        Searched(t) =>
            LET FromEligible(key, label) ==
                    \E rec \in Records :
                        rec.key = key /\ rec.label = label /\ EligibleFor(rec, t)
            IN  /\ \A i \in 1..Len(Matches(t)) :
                      /\ FromEligible(Matches(t)[i].key, Matches(t)[i].label)
                      /\ \E rec \in Records :
                            /\ rec.key = Matches(t)[i].key
                            /\ rec.HealthyPaws = Matches(t)[i].breed_id
                /\ outcome[t].kind = "Resolved"
                   => FromEligible(outcome[t].key, outcome[t].label)
                /\ outcome[t].kind = "Ambiguous"
                   => \A i \in 1..Len(outcome[t].options) :
                         FromEligible(outcome[t].options[i].key,
                                      outcome[t].options[i].label)

\* A resolved record whose label a record of the other species carries too.
C9_Witness ==
    \E t \in Callers :
        /\ Searched(t)
        /\ outcome[t].kind = "Resolved"
        /\ \E rec \in Records :
              /\ rec.label = outcome[t].label
              /\ rec.key # outcome[t].key
              /\ rec.HealthyPaws # ""
              /\ ~EligibleFor(rec, t)

\* C10: once loaded the cached table never changes, and a finished call has
\* the outcome of the remembered call with the same species and query.
C10_Idempotence ==
    /\ [](\A t \in Callers :
             (/\ pc[t] = "done"
              /\ memo # NoCall
              /\ species_type[t] = memo.species_type
              /\ breed_name[t] = memo.breed_name)
             => outcome[t] = memo.outcome)
    /\ [][~BREEDS_CACHE.is_none => BREEDS_CACHE' = BREEDS_CACHE]_vars

\* Two callers have finished the remembered call's inputs, with a match.
C10_Witness ==
    \E t1, t2 \in Callers :
        /\ t1 # t2
        /\ memo # NoCall
        /\ memo.outcome.kind = "Resolved"
        /\ \A t \in {t1, t2} :
              /\ pc[t] = "done"
              /\ species_type[t] = memo.species_type
              /\ breed_name[t] = memo.breed_name
        /\ cache_writes >= 2

====
